---- MODULE Spec2Model ----
(***************************************************************************)
(* Deployment-Alert: the webhook/notify ingestion endpoints, the bounded   *)
(* notification store and the Server-Sent-Events broadcast hub of the      *)
(* server in src/unnamed/part_000 (lines 316-1643), as a state machine.    *)
(*                                                                         *)
(* The server is single-threaded: every request handler, close handler and *)
(* timer callback runs to completion, so each is one atomic action.        *)
(*                                                                         *)
(* JavaScript values are represented as follows.                           *)
(*   - a string that is only compared is a TLA+ string;                    *)
(*   - a string that is decoded character by character (the signature      *)
(*     header) is a sequence of one-character strings;                     *)
(*   - a string built by a template literal is the sequence of its         *)
(*     fragments;                                                          *)
(*   - an object is a record; a property that is undefined is a field      *)
(*     that is absent (which is also what JSON.stringify puts on the       *)
(*     wire).                                                              *)
(***************************************************************************)
EXTENDS Integers, Sequences, FiniteSets, TLC

VARIABLES
    envSecret,            \* process.env.WEBHOOK_SECRET ("" when unset)
    recentNotifications,  \* the store, newest first
    sseClients,           \* the registry: an array of connections
    timers,               \* connections whose keepAlive interval is active
    conn,                 \* connection -> "none" | "open" | "closed"
    broken,               \* connections on which res.write throws
    inbox,                \* connection -> the messages written to it
    now,                  \* the server clock, in milliseconds
    last,                 \* history: the step just taken (its request, its
                          \* HTTP response and its broadcastNotification pass)
    published,            \* history: the accepted notifications, in order
    subAt,                \* history: connection -> Len(published) when it subscribed
    pings,                \* history: connection -> number of its keep-alive ticks
    clients               \* simple-server.js: the array of open event streams

vars == <<envSecret, recentNotifications, sseClients, timers, conn, broken,
          inbox, now, last, published, subAt, pings, clients>>

---------------------------------------------------------------------------
(* Bounds of the model *)

\* connections that may be opened through /events
MaxConns == 2
\* ingestion requests that may be accepted in a run of Spec
MaxNotifs == 2
\* keep-alive ticks of a connection's timer in a run of Spec
MaxPings == 1
\* last clock reading (milliseconds since the epoch) in a run of Spec
MaxClock == 1
\* keep-alive ticks of a connection's timer in a run of SpecPing
MaxLivePings == 3
\* SpecStore starts from a store that is empty, or holds SmallFill
\* notifications, or CapMargin fewer than its capacity, and accepts up to
\* MaxMore more (MaxMore < SmallFill)
SmallFill == 4
CapMargin == 1
MaxMore == 3
\* notifications that may be accepted in a run of SpecSig
MaxSigNotifs == 1
\* notifications that may be accepted in a run of SpecNotify
MaxLegacy == 1
\* notifications that may be accepted in a run of SpecFields
MaxFieldNotifs == 1

Min(a, b) == IF a < b THEN a ELSE b

---------------------------------------------------------------------------
(* Hex strings and buffers *)

HexDigits == <<"0", "1", "2", "3", "4", "5", "6", "7",
               "8", "9", "a", "b", "c", "d", "e", "f">>
UpperDigits == <<"0", "1", "2", "3", "4", "5", "6", "7",
                 "8", "9", "A", "B", "C", "D", "E", "F">>

\* unhex() of Node's hex decoder: the value of a hex digit, -1 for any other
\* character
HexTable ==
    [c \in {HexDigits[i] : i \in 1..16} \cup {UpperDigits[i] : i \in 1..16} |->
        IF \E i \in 1..16 : HexDigits[i] = c
        THEN (CHOOSE i \in 1..16 : HexDigits[i] = c) - 1
        ELSE (CHOOSE i \in 1..16 : UpperDigits[i] = c) - 1]
HexVal(c) == IF c \in DOMAIN HexTable THEN HexTable[c] ELSE -1

\* digest('hex'): two lower-case digits per byte
ToHex(bytes) ==
    [i \in 1..(2 * Len(bytes)) |->
        LET b == bytes[(i + 1) \div 2]
        IN  IF i % 2 = 1 THEN HexDigits[(b \div 16) + 1]
                         ELSE HexDigits[(b % 16) + 1]]

\* Buffer.from(s, 'hex'): decodes Len(s) \div 2 pairs and stops at the first
\* pair that holds a character that is no hex digit; an odd last character
\* is dropped
BufferFromHex(s) ==
    LET pairs == 1..(Len(s) \div 2)
        bad == {i \in pairs : HexVal(s[2 * i - 1]) = -1 \/ HexVal(s[2 * i]) = -1}
        decoded == IF bad = {} THEN Len(s) \div 2
                   ELSE (CHOOSE i \in bad : \A j \in bad : i <= j) - 1
    IN  [i \in 1..decoded |-> 16 * HexVal(s[2 * i - 1]) + HexVal(s[2 * i])]

---------------------------------------------------------------------------
(* The signature verifier *)

DefaultSecret == "railway-webhook-secret"
\* a secret an operator may configure
OtherSecret == "topsecret"

\* const WEBHOOK_SECRET = process.env.WEBHOOK_SECRET || 'railway-webhook-secret'
WEBHOOK_SECRET == IF envSecret = "" THEN DefaultSecret ELSE envSecret

\* bytes of a digest in the model (SHA-256 yields 32; the verifier does not
\* depend on the number)
DigestBytes == 4

\* The request bodies of the model, as the text the sender puts on the wire.
BodySuccess == "{\"type\":\"deployment.success\",\"project\":{\"id\":\"p1\",\"name\":\"Shop\"},\"deployment\":{\"id\":\"d1\",\"status\":\"SUCCESS\",\"url\":\"https://x\"},\"environment\":{\"name\":\"staging\"}}"
BodyCrashed == "{\"type\":\"deployment.crashed\",\"environment\":{}}"
BodyUnknown == "{\"type\":\"unknown.event\"}"
BodyNull == "null"
BodyMalformed == "{\"type\":"

BodyTexts == <<BodySuccess, BodyCrashed, BodyUnknown, BodyNull, BodyMalformed>>

KeyCode(key) == IF key = DefaultSecret THEN 1 ELSE IF key = OtherSecret THEN 2 ELSE 3
TextCode(text) ==
    IF \E i \in 1..Len(BodyTexts) : BodyTexts[i] = text
    THEN CHOOSE i \in 1..Len(BodyTexts) : BodyTexts[i] = text
    ELSE 0

\* crypto.createHmac('sha256', key).update(text).digest(): HMAC-SHA256 is
\* represented by a function that is deterministic and gives different
\* (key, text) pairs different digests of DigestBytes bytes, which is all
\* the server relies on.
Hmac(key, text) ==
    [i \in 1..DigestBytes |-> (16 * KeyCode(key) + TextCode(text) + 37 * i) % 256]

\* crypto.timingSafeEqual(a, b): throws a RangeError when the byte lengths
\* differ, and compares the bytes otherwise
TimingSafeEqual(a, b) ==
    IF Len(a) # Len(b) THEN [threw |-> TRUE, value |-> FALSE]
    ELSE [threw |-> FALSE, value |-> (a = b)]

\* verifyWebhookSignature(payload, signature); payload is req.body, signature
\* the header value. update(payload) throws a TypeError for a payload that is
\* no Buffer.
verifyWebhookSignature(payload, signature) ==
    IF signature = << >> THEN [threw |-> FALSE, value |-> FALSE]
    ELSE IF ~payload.isBuffer THEN [threw |-> TRUE, value |-> FALSE]
    ELSE LET expectedSignature == ToHex(Hmac(WEBHOOK_SECRET, payload.text))
         IN  TimingSafeEqual(BufferFromHex(signature),
                             BufferFromHex(expectedSignature))

---------------------------------------------------------------------------
(* Parsing and the event mapper *)

\* obj.field is defined (and obj itself is an object)
Has(obj, field) == field \in DOMAIN obj

\* the empty object {}; also stands for an object that is undefined when
\* only its properties are read through ?.
EmptyObject == << >>

\* JavaScript's null as the value of a property, written as a string that
\* no payload of the model holds as a string
Null == "(null)"

\* a string property that is neither '' nor null
Truthy(value) == value # "" /\ value # Null

\* a property list with one optional property
Opt(field, present, value) == IF present THEN field :> value ELSE EmptyObject

\* The webhook payloads of SpecFields: a provider type from the table, from
\* outside it, the empty string, or the name of a property that every
\* object inherits from Object.prototype; with and without a deployment
\* (and its URL, also null as test-webhook.js sends it for every event but
\* success) and an environment (and its name).
TableTypes == {"deployment.initialize", "deployment.queued",
               "deployment.building", "deployment.deploying",
               "deployment.success", "deployment.failed",
               "deployment.crashed", "deployment.sleeping",
               "deployment.removed", "deployment.skipped"}
InheritedKeys == {"constructor", "toString", "__proto__", "hasOwnProperty",
                  "valueOf", "isPrototypeOf", "propertyIsEnumerable",
                  "toLocaleString", "__defineGetter__", "__defineSetter__",
                  "__lookupGetter__", "__lookupSetter__"}
MapTypes == TableTypes \cup {"unknown.event", ""} \cup InheritedKeys
Deployments == {EmptyObject,
                "deployment" :> [status |-> "SUCCESS"],
                "deployment" :> [status |-> "SUCCESS", url |-> "https://x"],
                "deployment" :> [status |-> "SUCCESS", url |-> Null]}
Environments == {EmptyObject,
                 "environment" :> EmptyObject,
                 "environment" :> [name |-> ""],
                 "environment" :> [name |-> "staging"]}
MapPayloads ==
    {("type" :> type) @@ deployment @@ environment :
        type \in MapTypes, deployment \in Deployments,
        environment \in Environments}

\* JSON.stringify(payload) of test-webhook.js, for the payloads above
JSONStringify(data) ==
    "{\"type\":\"" \o data.type \o "\""
    \o (IF Has(data, "deployment")
        THEN ",\"deployment\":{\"status\":\"" \o data.deployment.status \o "\""
             \o (IF Has(data.deployment, "url")
                 THEN ",\"url\":"
                      \o (IF data.deployment.url = Null THEN "null"
                          ELSE "\"" \o data.deployment.url \o "\"")
                 ELSE "")
             \o "}"
        ELSE "")
    \o (IF Has(data, "environment")
        THEN ",\"environment\":{"
             \o (IF Has(data.environment, "name")
                 THEN "\"name\":\"" \o data.environment.name \o "\"" ELSE "")
             \o "}"
        ELSE "")
    \o "}"
\* JSON.parse of the texts of these payloads
ParseTable ==
    [text \in {JSONStringify(data) : data \in MapPayloads} |->
        CHOOSE data \in MapPayloads : JSONStringify(data) = text]

\* mutant of JSONParse: text that is no JSON is taken for an empty object
JSONParseLenient(text) ==
    CASE text = BodySuccess ->
           [kind |-> "object",
            value |-> [type |-> "deployment.success",
                       project |-> [id |-> "p1", name |-> "Shop"],
                       deployment |-> [id |-> "d1", status |-> "SUCCESS",
                                       url |-> "https://x"],
                       environment |-> [name |-> "staging"]]]
      [] text = BodyCrashed ->
           [kind |-> "object",
            value |-> [type |-> "deployment.crashed",
                       environment |-> EmptyObject]]
      [] text = BodyUnknown ->
           [kind |-> "object", value |-> [type |-> "unknown.event"]]
      [] text = BodyNull -> [kind |-> "null", value |-> EmptyObject]
      [] text \in DOMAIN ParseTable ->
           [kind |-> "object", value |-> ParseTable[text]]
      [] OTHER -> [kind |-> "object", value |-> EmptyObject]

\* JSON.parse(payload.toString()) on the bodies of the model:
\* kind "object" with the parsed value, "null" for the JSON value null,
\* "error" when JSON.parse throws a SyntaxError
JSONParse(text) ==
    CASE text = BodySuccess ->
           [kind |-> "object",
            value |-> [type |-> "deployment.success",
                       project |-> [id |-> "p1", name |-> "Shop"],
                       deployment |-> [id |-> "d1", status |-> "SUCCESS",
                                       url |-> "https://x"],
                       environment |-> [name |-> "staging"]]]
      [] text = BodyCrashed ->
           [kind |-> "object",
            value |-> [type |-> "deployment.crashed",
                       environment |-> EmptyObject]]
      [] text = BodyUnknown ->
           [kind |-> "object", value |-> [type |-> "unknown.event"]]
      [] text = BodyNull -> [kind |-> "null", value |-> EmptyObject]
      [] text \in DOMAIN ParseTable ->
           [kind |-> "object", value |-> ParseTable[text]]
      [] OTHER -> [kind |-> "error", value |-> EmptyObject]

\* payload.toString(): the text of a Buffer, "[object Object]" for the {}
\* that express.raw leaves when the content type is not application/json
PayloadToString(payload) ==
    IF payload.isBuffer THEN payload.text ELSE "[object Object]"

RAILWAY_EVENT_MAP ==
    [type \in {"deployment.initialize", "deployment.queued",
               "deployment.building", "deployment.deploying",
               "deployment.success", "deployment.failed",
               "deployment.crashed", "deployment.sleeping",
               "deployment.removed", "deployment.skipped"} |->
        CASE type = "deployment.initialize" -> "initializing"
          [] type = "deployment.queued" -> "queued"
          [] type = "deployment.building" -> "building"
          [] type = "deployment.deploying" -> "deploying"
          [] type = "deployment.success" -> "deployment_success"
          [] type = "deployment.failed" -> "deployment_failure"
          [] type = "deployment.crashed" -> "service_crash"
          [] type = "deployment.sleeping" -> "sleeping"
          [] type = "deployment.removed" -> "removed"
          [] type = "deployment.skipped" -> "skipped"]

\* What a property that RAILWAY_EVENT_MAP inherits from Object.prototype
\* holds: a function or an object, written here as its String(); all are
\* truthy. (JSON.stringify leaves a function out and writes the prototype
\* object as {}.)
ObjectPrototype ==
    [key \in InheritedKeys |->
        CASE key = "constructor" -> "function Object() { [native code] }"
          [] key = "__proto__" -> "[object Object]"
          [] OTHER -> "function " \o key \o "() { [native code] }"]

\* RAILWAY_EVENT_MAP[type] || type, for a type that is a string
MapEvent(type) ==
    IF type \in DOMAIN RAILWAY_EVENT_MAP THEN RAILWAY_EVENT_MAP[type]
    ELSE IF type \in DOMAIN ObjectPrototype THEN ObjectPrototype[type]
    ELSE type

\* the text a template literal gives for undefined
Undefined == "undefined"

\* obj?.field, for a field that is a string
Field(obj, field) == IF Has(obj, field) THEN obj[field] ELSE Undefined

\* mutant of generateEventMessage: the switch is over the normalized kind
generateEventMessageByKind(type, deployment, environment) ==
    LET env == IF Has(environment, "name") /\ Truthy(environment.name)
               THEN environment.name ELSE "production"
        hasUrl == Has(deployment, "url") /\ Truthy(deployment.url)
    IN  CASE type = "initializing" -> <<"Deployment initialized for ", env>>
          [] type = "queued" -> <<"Deployment queued for ", env>>
          [] type = "building" -> <<"Building deployment for ", env>>
          [] type = "deploying" -> <<"Deploying to ", env>>
          [] type = "deployment_success" ->
               IF hasUrl
               THEN <<"Successfully deployed to ", env, " at ", deployment.url>>
               ELSE <<"Successfully deployed to ", env>>
          [] type = "deployment_failure" -> <<"Deployment failed for ", env>>
          [] type = "service_crash" -> <<"Service crashed in ", env>>
          [] type = "sleeping" -> <<"Service sleeping in ", env>>
          [] type = "removed" -> <<"Deployment removed from ", env>>
          [] type = "skipped" -> <<"Deployment skipped for ", env>>
          [] OTHER -> <<type, " in ", env>>

\* generateEventMessage(type, deployment, environment); a template literal
\* is the sequence of its fragments
generateEventMessage(type, deployment, environment) ==
    LET env == IF Has(environment, "name") /\ Truthy(environment.name)
               THEN environment.name ELSE "production"
        hasUrl == Has(deployment, "url") /\ Truthy(deployment.url)
    IN  CASE type = "deployment.initialize" -> <<"Deployment initialized for ", env>>
          [] type = "deployment.queued" -> <<"Deployment queued for ", env>>
          [] type = "deployment.building" -> <<"Building deployment for ", env>>
          [] type = "deployment.deploying" -> <<"Deploying to ", env>>
          [] type = "deployment.success" ->
               IF hasUrl
               THEN <<"Successfully deployed to ", env, " at ", deployment.url>>
               ELSE <<"Successfully deployed to ", env>>
          [] type = "deployment.failed" -> <<"Deployment failed for ", env>>
          [] type = "deployment.crashed" -> <<"Service crashed in ", env>>
          [] type = "deployment.sleeping" -> <<"Service sleeping in ", env>>
          [] type = "deployment.removed" -> <<"Deployment removed from ", env>>
          [] type = "deployment.skipped" -> <<"Deployment skipped for ", env>>
          [] OTHER -> <<type, " in ", env>>

\* new Date(t).toISOString() for a clock reading below one second: the
\* date and time of the epoch, then the milliseconds in three digits
toISOString(t) ==
    <<"1970-01-01T00:00:00.", HexDigits[((t \div 100) % 10) + 1],
      HexDigits[((t \div 10) % 10) + 1], HexDigits[(t % 10) + 1], "Z">>

\* The three readings of the clock that a notification object literal
\* takes, in source order: Date.now() for id, new Date() for timestamp,
\* new Date() for receivedAt. The first is taken at `t`, and the clock does
\* not go back nor pass `horizon` while they are taken.
ClockReads(t, horizon) ==
    LET end == IF horizon < t THEN t ELSE horizon
    IN  {reads \in {<<t, second, third>> : second \in t..end, third \in t..end} :
            reads[2] <= reads[3]}

\* the readings of a handler during which the clock stands still
Still(t) == <<t, t, t>>

\* the notification object literal of the /webhook handler
WebhookNotification(webhookData, reads) ==
    LET hasType == Has(webhookData, "type")
        type == Field(webhookData, "type")
        project == IF Has(webhookData, "project") THEN webhookData.project
                   ELSE EmptyObject
        deployment == IF Has(webhookData, "deployment") THEN webhookData.deployment
                      ELSE EmptyObject
        environment == IF Has(webhookData, "environment") THEN webhookData.environment
                       ELSE EmptyObject
        eventType == MapEvent(type)
    IN  [id |-> reads[1],
         project |-> IF Has(project, "name") /\ Truthy(project.name)
                     THEN project.name ELSE "Unknown Project",
         timestamp |-> toISOString(reads[2]),
         message |-> generateEventMessage(type, deployment, environment),
         receivedAt |-> toISOString(reads[3]),
         railwayData |->
             Opt("type", hasType, type)
             @@ Opt("projectId", Has(project, "id"), Field(project, "id"))
             @@ Opt("deploymentId", Has(deployment, "id"), Field(deployment, "id"))
             @@ Opt("environment", Has(environment, "name"), Field(environment, "name"))
             @@ Opt("status", Has(deployment, "status"), Field(deployment, "status"))
             @@ Opt("url", Has(deployment, "url"), Field(deployment, "url"))]
        @@ Opt("event", hasType, eventType)

\* x || fallback for a query parameter: absent and '' are falsy
OrElse(query, field, fallback) ==
    IF Has(query, field) /\ query[field] # "" THEN query[field] ELSE fallback

\* mutant of LegacyNotification: a receivedAt parameter of the caller is used
LegacyNotificationTrustsCaller(query, reads) ==
    [id |-> reads[1],
     project |-> OrElse(query, "project", "Manual Notification"),
     event |-> OrElse(query, "event", "unknown"),
     timestamp |-> IF Has(query, "timestamp") /\ query.timestamp # ""
                   THEN <<query.timestamp>> ELSE toISOString(reads[2]),
     message |-> IF Has(query, "message") /\ query.message # ""
                 THEN <<query.message>> ELSE << >>,
     receivedAt |-> IF Has(query, "receivedAt")
                    THEN <<query.receivedAt>> ELSE toISOString(reads[3]),
     isLegacy |-> TRUE]

\* the notification object literal of the /notify handler; the second
\* reading is taken only when no timestamp parameter is given
LegacyNotification(query, reads) ==
    [id |-> reads[1],
     project |-> OrElse(query, "project", "Manual Notification"),
     event |-> OrElse(query, "event", "unknown"),
     timestamp |-> IF Has(query, "timestamp") /\ query.timestamp # ""
                   THEN <<query.timestamp>> ELSE toISOString(reads[2]),
     message |-> IF Has(query, "message") /\ query.message # ""
                 THEN <<query.message>> ELSE << >>,
     receivedAt |-> toISOString(reads[3]),
     isLegacy |-> TRUE]

---------------------------------------------------------------------------
(* The notification store *)

\* capacity of the store
StoreCap == 100

\* mutant of StoreAppend: the entries already stored are stamped with the
\* time of the new one
StoreAppendRestamping(store, notification) ==
    LET grown == <<notification>>
                 \o [i \in DOMAIN store |->
                       [store[i] EXCEPT !.receivedAt = notification.receivedAt]]
    IN  IF Len(grown) > StoreCap THEN SubSeq(grown, 1, StoreCap) ELSE grown

\* mutant of StoreAppend: the slice is forgotten
StoreAppendUncapped(store, notification) == <<notification>> \o store

\* recentNotifications.unshift(notification), then slice(0, 100) when longer
StoreAppend(store, notification) ==
    LET grown == <<notification>> \o store
    IN  IF Len(grown) > StoreCap THEN SubSeq(grown, 1, StoreCap) ELSE grown

\* mutant of Slice: slice(1, k + 1), which leaves out the newest
SliceSkipsNewest(array, k) == SubSeq(array, 2, Min(k + 1, Len(array)))

\* array.slice(0, k)
Slice(array, k) == SubSeq(array, 1, Min(k, Len(array)))

---------------------------------------------------------------------------
(* The broadcast hub *)

Conns == 1..MaxConns

\* mutant of Splice: splice(index), which removes everything from the index on
SpliceRest(array, index) == SubSeq(array, 1, index - 1)

\* array.splice(index, 1), with the index counted from 1
Splice(array, index) ==
    SubSeq(array, 1, index - 1) \o SubSeq(array, index + 1, Len(array))

\* array.indexOf(x), counted from 1; 0 when x is not in the array
IndexOf(array, x) ==
    IF \E i \in 1..Len(array) : array[i] = x
    THEN CHOOSE i \in 1..Len(array) :
            array[i] = x /\ \A j \in 1..(i - 1) : array[j] # x
    ELSE 0

\* mutant of RemoveClient: the check of the index is left out, and
\* splice(-1, 1) removes the last element
RemoveClientUnchecked(array, res) ==
    IF IndexOf(array, res) # 0 THEN Splice(array, IndexOf(array, res))
    ELSE SubSeq(array, 1, Len(array) - 1)

\* const index = sseClients.indexOf(res); if (index !== -1) splice(index, 1)
RemoveClient(array, res) ==
    IF IndexOf(array, res) # 0 THEN Splice(array, IndexOf(array, res))
    ELSE array

\* mutant of BroadcastCallback: the catch block logs and leaves the dead
\* client in the registry
BroadcastCallbackKeepsDead(pass, client, index, brk) ==
    IF client \notin brk
    THEN [pass EXCEPT !.written = Append(@, client),
                      !.tried = Append(@, client)]
    ELSE [pass EXCEPT !.failed = Append(@, client),
                      !.tried = Append(@, client)]

\* The callback of sseClients.forEach in broadcastNotification, called with
\* the element at `index`. pass.clients is sseClients; written, failed and
\* tried record the writes of the pass; threw says that an exception left
\* the callback.
BroadcastCallback(pass, client, index, brk) ==
    IF client \notin brk
    THEN [pass EXCEPT !.written = Append(@, client),
                      !.tried = Append(@, client)]
    ELSE \* catch (error): remove dead client
         [pass EXCEPT !.clients = Splice(@, index),
                      !.failed = Append(@, client),
                      !.tried = Append(@, client)]

\* Array.prototype.forEach: the length is read once, before the first call;
\* index k is visited when it is still an index of the array, and the
\* element passed is the one at k at that moment
RECURSIVE ForEachFrom(_, _, _, _)
ForEachFrom(pass, k, len, brk) ==
    IF k > len \/ pass.threw THEN pass
    ELSE IF k > Len(pass.clients) THEN ForEachFrom(pass, k + 1, len, brk)
    ELSE ForEachFrom(BroadcastCallback(pass, pass.clients[k], k, brk),
                     k + 1, len, brk)

\* a pass that has not visited any connection yet
StartPass(array) ==
    [before |-> array, clients |-> array, written |-> << >>,
     failed |-> << >>, tried |-> << >>, threw |-> FALSE]

\* mutant of broadcastNotification: the registry is walked twice
broadcastTwice(array, brk) ==
    LET first == ForEachFrom(StartPass(array), 1, Len(array), brk)
    IN  [ForEachFrom([first EXCEPT !.before = array], 1, Len(first.clients), brk)
            EXCEPT !.before = array]

\* broadcastNotification(notification) on the registry `array`, when the
\* writes to the connections of brk throw
broadcastNotification(array, brk) ==
    ForEachFrom(StartPass(array), 1, Len(array), brk)

\* mutant of ConnectedMsg: the count is taken before the new connection
ConnectedMsgBefore(count) ==
    [type |-> "connected",
     message |-> "Connected to deployment notifications",
     clientCount |-> count - 1]

\* the messages of the event stream
ConnectedMsg(count) ==
    [type |-> "connected",
     message |-> "Connected to deployment notifications",
     clientCount |-> count]
\* JSON.stringify of a notification inside a frame: an event that is a
\* function (a method inherited from Object.prototype) is left out, and
\* one that is Object.prototype itself is written as {}
StringifyNotification(notification) ==
    IF ~Has(notification, "event") THEN notification
    ELSE IF notification.event = ObjectPrototype["__proto__"]
    THEN [notification EXCEPT !.event = EmptyObject]
    ELSE IF \E key \in InheritedKeys : notification.event = ObjectPrototype[key]
    THEN [field \in DOMAIN notification \ {"event"} |-> notification[field]]
    ELSE notification
HistoryMsg(notifications) ==
    [type |-> "history",
     notifications |->
        [i \in DOMAIN notifications |-> StringifyNotification(notifications[i])]]
\* pub is history: the ordinal of the publish that wrote the message
NotificationMsg(notification, pub) ==
    [type |-> "notification",
     notification |-> StringifyNotification(notification), pub |-> pub]
PingMsg(t) == [type |-> "ping", timestamp |-> toISOString(t)]

\* the successful writes of a pass, put into the connections' inboxes
RECURSIVE Deliver(_, _, _)
Deliver(boxes, written, msg) ==
    IF written = << >> THEN boxes
    ELSE Deliver([boxes EXCEPT ![Head(written)] = Append(@, msg)],
                 Tail(written), msg)

---------------------------------------------------------------------------
(* Requests *)

\* 2^k
RECURSIVE Pow2(_)
Pow2(k) == IF k = 0 THEN 1 ELSE 2 * Pow2(k - 1)

\* the digest with bit j (from 0) flipped
FlipBit(bytes, j) ==
    LET bit == Pow2(j % 8)
    IN  [bytes EXCEPT ![(j \div 8) + 1] =
            IF (@ \div bit) % 2 = 1 THEN @ - bit ELSE @ + bit]

\* what test-webhook.js generateSignature(payload) sends for a sender that
\* holds `key`
generateSignature(key, text) == ToHex(Hmac(key, text))

UpperCase(s) == [i \in 1..Len(s) |->
                    IF HexVal(s[i]) >= 0 THEN UpperDigits[HexVal(s[i]) + 1] ELSE s[i]]

\* signature header values derived from the digest a server with secret
\* `key` expects
FlippedSignatures(key, text) ==
    {ToHex(FlipBit(Hmac(key, text), j)) : j \in 0..(8 * DigestBytes - 1)}
MalformedSignatures(key, text) ==
    LET good == generateSignature(key, text)
    IN  {SubSeq(good, 1, Len(good) - 2),       \* one byte short
         SubSeq(good, 1, Len(good) - 1),       \* odd length, short
         good \o <<"a", "b">>,                 \* one byte long
         good \o <<"a">>,                      \* odd length, long
         good \o <<"z", "z">>,                 \* trailing characters
         [good EXCEPT ![3] = "g"] ,            \* a non-hex character inside
         <<"n", "o", "t", "-", "h", "e", "x">>,
         << >>}                                \* the header with an empty value
AllSignatures(key, text) ==
    {generateSignature(key, text), UpperCase(generateSignature(key, text)),
     generateSignature("attacker", text)}
    \cup FlippedSignatures(key, text) \cup MalformedSignatures(key, text)
FewSignatures(key, text) ==
    {generateSignature(key, text), ToHex(FlipBit(Hmac(key, text), 0))}

\* a POST /webhook: content type, body text, and the X-Railway-Signature
\* header when the sender set one
Signed(ct, text, signature) ==
    [contentType |-> ct, text |-> text, signature |-> signature]
Unsigned(ct, text) == [contentType |-> ct, text |-> text]

\* the /webhook requests of Spec, sent to a server on the default secret
HubRequests ==
    {Signed("application/json", BodySuccess,
            generateSignature(DefaultSecret, BodySuccess))}

\* the /webhook requests of SpecSig, sent to a server whose secret is `key`
SigTexts == {BodySuccess, BodyNull, BodyMalformed}
SigRequests(key) ==
    UNION {{Signed("application/json", t, sg) : sg \in AllSignatures(key, t)} :
              t \in SigTexts}
    \cup {Unsigned("application/json", t) : t \in SigTexts}
    \cup {Signed("application/json", BodySuccess, generateSignature(key, BodyCrashed)),
          Signed("text/plain", BodySuccess, generateSignature(key, BodySuccess)),
          Unsigned("text/plain", BodySuccess)}

\* req.query of a /notify request
FullQuery == [project |-> "Shop", event |-> "build_start",
              timestamp |-> "2024-05-01T10:00:00.000Z", message |-> "go"]
Queries == {EmptyObject, FullQuery}
\* the /notify requests of Spec
HubQueries == {EmptyObject}
\* every req.query made of the four parameters, each absent, empty or set
QueryParams == {"project", "event", "timestamp", "message"}
AllQueries ==
    UNION {{[k \in present |-> IF k \in empty THEN "" ELSE FullQuery[k]] :
               empty \in SUBSET present} : present \in SUBSET QueryParams}
\* queries with parameters the handler does not read
ExtraQueries ==
    {[receivedAt |-> "2001-01-01T00:00:00.000Z"],
     [receivedAt |-> "2001-01-01T00:00:00.000Z",
      timestamp |-> "2024-05-01T10:00:00.000Z"],
     [id |-> "7", isLegacy |-> "false"]}
\* req.method
Methods == {"GET", "POST", "PUT", "DELETE", "HEAD", "OPTIONS"}

---------------------------------------------------------------------------
(* The state machine *)

NoPass == [before |-> << >>, clients |-> << >>, written |-> << >>,
           failed |-> << >>, tried |-> << >>, threw |-> FALSE]

\* the record of a step that is no request, close event or timer tick
Idle == [kind |-> "none", status |-> 0, pass |-> NoPass]
\* the record of a close event or keep-alive tick of connection `res`, with
\* the registry as it was before the step
Event(kind, res) ==
    [kind |-> kind, status |-> 0, pass |-> NoPass, res |-> res,
     before |-> sseClients]
\* the record of a /webhook or /notify request and of its response
Handled(kind, req, response, pass) ==
    [kind |-> kind, req |-> req, status |-> response.status,
     response |-> response, pass |-> pass]

\* the state after construction, but for the environment
Fresh ==
    /\ recentNotifications = << >>
    /\ sseClients = << >>
    /\ timers = {}
    /\ conn = [c \in Conns |-> "none"]
    /\ broken = {}
    /\ inbox = [c \in Conns |-> << >>]
    /\ now = 0
    /\ last = Idle
    /\ published = << >>
    /\ subAt = [c \in Conns |-> 0]
    /\ pings = [c \in Conns |-> 0]
    /\ clients = << >>

Init == envSecret = "" /\ Fresh

\* the server clock advances, up to `limit`
Tick(limit) ==
    /\ now < limit
    /\ now' = now + 1
    /\ last' = Idle
    /\ UNCHANGED <<clients, envSecret, recentNotifications, sseClients, timers, conn,
                   broken, inbox, published, subAt, pings>>

\* a request that is answered without touching the store or the hub
Reject(kind, req, response) ==
    /\ last' = Handled(kind, req, response, NoPass)
    /\ UNCHANGED <<clients, envSecret, recentNotifications, sseClients, timers, conn,
                   broken, inbox, now, published, subAt, pings>>

ServerError == [status |-> 500, error |-> "Internal Server Error"]

\* the tail shared by the two ingestion handlers: store, broadcast,
\* respond; the clock is left at the handler's last reading `t`
Ingest(kind, req, notification, t) ==
    LET pass == broadcastNotification(sseClients, broken)
    IN  /\ recentNotifications' = StoreAppend(recentNotifications, notification)
        /\ sseClients' = pass.clients
        /\ inbox' = Deliver(inbox, pass.written,
                            NotificationMsg(notification, Len(published) + 1))
        /\ last' = Handled(kind, req,
              IF pass.threw THEN ServerError
              ELSE [status |-> 200, success |-> TRUE, received |-> notification,
                    playSound |-> TRUE, clientsNotified |-> Len(pass.clients)],
              pass)
        /\ published' = Append(published, notification)
        /\ now' = t
        /\ UNCHANGED <<clients, envSecret, timers, conn, broken, subAt, pings>>

\* req.body as express.raw({ type: 'application/json' }) leaves it
RawBody(req) ==
    IF req.contentType = "application/json"
    THEN [isBuffer |-> TRUE, text |-> req.text]
    ELSE [isBuffer |-> FALSE, text |-> ""]

\* app.post('/webhook'), with at most `limit` notifications accepted in a
\* run and the clock within `horizon`
Webhook(req, limit, horizon) ==
    LET payload == RawBody(req)
        signed == Has(req, "signature") /\ req.signature # << >>
        verdict == verifyWebhookSignature(payload, req.signature)
        parsed == JSONParse(PayloadToString(payload))
    IN  IF WEBHOOK_SECRET # "" /\ signed /\ verdict.threw
        THEN Reject("webhook", req, ServerError)
        ELSE IF WEBHOOK_SECRET # "" /\ signed /\ ~verdict.value
        THEN Reject("webhook", req, [status |-> 401, error |-> "Invalid signature"])
        ELSE IF parsed.kind = "error"
        THEN Reject("webhook", req, [status |-> 400, error |-> "Invalid JSON"])
        ELSE IF parsed.kind = "null"
        THEN \* destructuring null throws a TypeError
             Reject("webhook", req, ServerError)
        ELSE /\ Len(published) < limit
             /\ \E reads \in ClockReads(now, horizon) :
                   Ingest("webhook", req,
                          WebhookNotification(parsed.value, reads), reads[3])

\* app.all('/notify')
Notify(query, limit, horizon) ==
    /\ Len(published) < limit
    /\ \E reads \in ClockReads(now, horizon) :
          Ingest("notify", query, LegacyNotification(query, reads), reads[3])

\* app.use(cors()): the middleware takes every OPTIONS request for a
\* preflight, answers it 204 itself and does not call next()
CorsEnds(method) == method = "OPTIONS"

\* a request for /notify, through the middleware and app.all('/notify')
NotifyRequest(method, query, limit, horizon) ==
    IF CorsEnds(method)
    THEN Reject("preflight", query, [status |-> 204])
    ELSE Notify(query, limit, horizon)

\* mutant of Notifications: the entries returned are taken out of the store
NotificationsDraining ==
    /\ last' = Handled("notifications", EmptyObject,
                       [status |-> 200, body |-> Slice(recentNotifications, 10)],
                       NoPass)
    /\ recentNotifications' =
          SubSeq(recentNotifications, Min(10, Len(recentNotifications)) + 1,
                 Len(recentNotifications))
    /\ UNCHANGED <<clients, envSecret, sseClients, timers, conn, broken, inbox, now,
                   published, subAt, pings>>

\* app.get('/notifications')
Notifications ==
    /\ last' = Handled("notifications", EmptyObject,
                       [status |-> 200, body |-> Slice(recentNotifications, 10)],
                       NoPass)
    /\ UNCHANGED <<clients, envSecret, recentNotifications, sseClients, timers, conn,
                   broken, inbox, now, published, subAt, pings>>

\* app.get('/events'): a new connection subscribes
Subscribe(limit) ==
    LET res == Cardinality({c \in Conns : conn[c] # "none"}) + 1
        registry == Append(sseClients, res)
    IN  /\ res <= limit
        /\ sseClients' = registry
        /\ inbox' = [inbox EXCEPT ![res] =
              <<ConnectedMsg(Len(registry))>>
              \o (IF Len(recentNotifications) > 0
                  THEN <<HistoryMsg(Slice(recentNotifications, 5))>>
                  ELSE << >>)]
        /\ timers' = timers \cup {res}
        /\ conn' = [conn EXCEPT ![res] = "open"]
        /\ subAt' = [subAt EXCEPT ![res] = Len(published)]
        /\ last' = Idle
        /\ UNCHANGED <<clients, envSecret, recentNotifications, broken, now, published, pings>>

\* mutant of Close: the first close handler (the splice) is missing
CloseLeavesRegistered(res) ==
    /\ conn[res] = "open"
    /\ timers' = timers \ {res}
    /\ conn' = [conn EXCEPT ![res] = "closed"]
    /\ last' = Event("close", res)
    /\ UNCHANGED <<clients, envSecret, recentNotifications, broken, inbox, now,
                   published, subAt, pings, sseClients>>

\* mutant of Close: the second close handler (clearInterval) is missing
CloseLeavesTimer(res) ==
    /\ conn[res] = "open"
    /\ sseClients' = RemoveClient(sseClients, res)
    /\ conn' = [conn EXCEPT ![res] = "closed"]
    /\ last' = Event("close", res)
    /\ UNCHANGED <<clients, envSecret, recentNotifications, broken, inbox, now,
                   published, subAt, pings, timers>>

\* the two req.on('close') handlers of a connection
Close(res) ==
    /\ conn[res] = "open"
    /\ sseClients' = RemoveClient(sseClients, res)
    /\ timers' = timers \ {res}
    /\ conn' = [conn EXCEPT ![res] = "closed"]
    /\ last' = Event("close", res)
    /\ UNCHANGED <<clients, envSecret, recentNotifications, broken, inbox, now,
                   published, subAt, pings>>

\* the environment: from now on res.write throws on this connection
Break(res) ==
    /\ conn[res] = "open"
    /\ res \notin broken
    /\ broken' = broken \cup {res}
    /\ last' = Idle
    /\ UNCHANGED <<clients, envSecret, recentNotifications, sseClients, timers, conn,
                   inbox, now, published, subAt, pings>>

\* mutant of KeepAlive: the catch block removes the connection and leaves
\* the interval running
KeepAliveKeepsTimer(res, limit) ==
    /\ res \in timers
    /\ pings[res] < limit
    /\ pings' = [pings EXCEPT ![res] = @ + 1]
    /\ last' = Event("ping", res)
    /\ IF res \notin broken
       THEN /\ inbox' = [inbox EXCEPT ![res] = Append(@, PingMsg(now))]
            /\ UNCHANGED <<timers, sseClients>>
       ELSE /\ sseClients' = RemoveClient(sseClients, res)
            /\ UNCHANGED <<inbox, timers>>
    /\ UNCHANGED <<clients, envSecret, recentNotifications, conn, broken, now,
                   published, subAt>>

\* mutant of KeepAlive: the catch block is empty
KeepAliveIgnoresFailure(res, limit) ==
    /\ res \in timers
    /\ pings[res] < limit
    /\ pings' = [pings EXCEPT ![res] = @ + 1]
    /\ last' = Event("ping", res)
    /\ IF res \notin broken
       THEN /\ inbox' = [inbox EXCEPT ![res] = Append(@, PingMsg(now))]
            /\ UNCHANGED <<timers, sseClients>>
       ELSE UNCHANGED <<inbox, timers, sseClients>>
    /\ UNCHANGED <<clients, envSecret, recentNotifications, conn, broken, now,
                   published, subAt>>

\* mutant of KeepAlive: the callback writes nothing
KeepAliveSilent(res, limit) ==
    /\ res \in timers
    /\ pings[res] < limit
    /\ pings' = [pings EXCEPT ![res] = @ + 1]
    /\ last' = Event("ping", res)
    /\ IF res \notin broken
       THEN UNCHANGED <<inbox, timers, sseClients>>
       ELSE /\ timers' = timers \ {res}
            /\ sseClients' = RemoveClient(sseClients, res)
            /\ UNCHANGED inbox
    /\ UNCHANGED <<clients, envSecret, recentNotifications, conn, broken, now,
                   published, subAt>>

\* the setInterval callback of a connection, which ticks at most `limit`
\* times in a run
KeepAlive(res, limit) ==
    /\ res \in timers
    /\ pings[res] < limit
    /\ pings' = [pings EXCEPT ![res] = @ + 1]
    /\ last' = Event("ping", res)
    /\ IF res \notin broken
       THEN /\ inbox' = [inbox EXCEPT ![res] = Append(@, PingMsg(now))]
            /\ UNCHANGED <<timers, sseClients>>
       ELSE /\ timers' = timers \ {res}
            /\ sseClients' = RemoveClient(sseClients, res)
            /\ UNCHANGED inbox
    /\ UNCHANGED <<clients, envSecret, recentNotifications, conn, broken, now,
                   published, subAt>>

Next ==
    \/ Tick(MaxClock)
    \/ \E req \in HubRequests : Webhook(req, MaxNotifs, MaxClock)
    \/ \E query \in HubQueries : Notify(query, MaxNotifs, MaxClock)
    \/ Subscribe(MaxConns)
    \/ \E res \in Conns : Close(res)
    \/ \E res \in Conns : Break(res)
    \/ \E res \in Conns : KeepAlive(res, MaxPings)

Spec == Init /\ [][Next]_vars

\* Spec with the timers ticking: setInterval keeps calling the callback of a
\* connection for as long as its interval is active
SpecLive == Spec /\ \A res \in Conns : WF_vars(KeepAlive(res, MaxPings))

---------------------------------------------------------------------------
(* SpecPing: the keep-alive timers over several ticks of each, with the   *)
(* connections opening, closing and dying and at most one notification    *)
(* published; setInterval keeps calling the callback of a connection for  *)
(* as long as its interval is active.                                     *)

NextPing ==
    \/ Subscribe(MaxConns)
    \/ \E res \in Conns : Close(res)
    \/ \E res \in Conns : Break(res)
    \/ \E res \in Conns : KeepAlive(res, MaxLivePings)
    \/ \E query \in HubQueries : Notify(query, 1, 0)

SpecPing ==
    /\ Init
    /\ [][NextPing]_vars
    /\ \A res \in Conns : WF_vars(KeepAlive(res, MaxLivePings))

---------------------------------------------------------------------------
(* SpecSig: the /webhook handler under every signature header of the model, *)
(* on a server with the default secret and on one with a configured secret. *)

InitSig == envSecret \in {"", OtherSecret} /\ Fresh

NextSig ==
    \/ \E req \in SigRequests(WEBHOOK_SECRET) : Webhook(req, MaxSigNotifs, MaxClock)
    \/ Subscribe(1)

SpecSig == InitSig /\ [][NextSig]_vars

---------------------------------------------------------------------------
(* SpecNotify: the legacy endpoint under every method and every query of  *)
(* the model.                                                             *)

NextNotify ==
    \/ \E method \in Methods : \E query \in AllQueries :
          NotifyRequest(method, query, MaxLegacy, MaxClock)
    \/ Subscribe(1)
    \/ Tick(MaxClock)

SpecNotify == Init /\ [][NextNotify]_vars

---------------------------------------------------------------------------
(* SpecFields: the fields of the notifications that the two ingestion     *)
(* endpoints build, under every webhook payload and every query of the    *)
(* model.                                                                 *)

NextFields ==
    \/ \E data \in MapPayloads :
          Webhook(Unsigned("application/json", JSONStringify(data)),
                  MaxFieldNotifs, MaxClock)
    \/ \E query \in AllQueries \cup ExtraQueries :
          NotifyRequest("GET", query, MaxFieldNotifs, MaxClock)
    \/ Subscribe(1)
    \/ Tick(MaxClock)
    \/ Notifications

SpecFields == Init /\ [][NextFields]_vars

---------------------------------------------------------------------------
(* SpecStore: the store when empty, around the length of a history        *)
(* message, and near and beyond its capacity. It starts in the state the  *)
(* server is in after `fill` /notify requests without query parameters,   *)
(* the i-th handled at clock reading i, and before any subscriber.        *)

BigFill == StoreCap - CapMargin

Prefilled(fill) == [i \in 1..fill |-> LegacyNotification(EmptyObject, Still(i))]

\* the store after unshift of each of `accepted` in turn, fewer than its
\* capacity: the same notifications, newest first
StoreAfter(accepted) ==
    [i \in 1..Len(accepted) |-> accepted[Len(accepted) - i + 1]]

InitStore ==
    \E fill \in {0, SmallFill, BigFill} :
        /\ envSecret = ""
        /\ recentNotifications = StoreAfter(Prefilled(fill))
        /\ sseClients = << >>
        /\ timers = {}
        /\ conn = [c \in Conns |-> "none"]
        /\ broken = {}
        /\ inbox = [c \in Conns |-> << >>]
        /\ now = fill
        /\ last = Idle
        /\ published = Prefilled(fill)
        /\ subAt = [c \in Conns |-> 0]
        /\ pings = [c \in Conns |-> 0]
        /\ clients = << >>

\* accepted notifications at which a run of SpecStore ends
StoreLimit ==
    IF Len(published) < SmallFill THEN MaxMore
    ELSE IF Len(published) < BigFill THEN SmallFill + MaxMore
    ELSE BigFill + MaxMore

NextStore ==
    \/ Tick(Len(published) + 1)
    \/ \E req \in HubRequests : Webhook(req, StoreLimit, Len(published) + 1)
    \/ \E query \in HubQueries : Notify(query, StoreLimit, Len(published) + 1)
    \/ Subscribe(1)
    \/ Notifications

SpecStore == InitStore /\ [][NextStore]_vars

---------------------------------------------------------------------------
(* simple-server.js: the stand-alone relay. It keeps no store, sends no   *)
(* greeting and no keep-alive, and guards no write.                       *)

MaxSimpleNotifs == 2

\* const { project, event, message } = req.query, then JSON.stringify of
\* { project, event, message }: a property that is undefined is left out
SimplePayload(query) ==
    [k \in DOMAIN query \cap {"project", "event", "message"} |-> query[k]]

\* the data frame written to a client; pub is history: the ordinal of the
\* /notify request that wrote it
SimpleMsg(query, pub) ==
    [type |-> "data", data |-> SimplePayload(query), pub |-> pub]

\* clients.forEach(client => client.write(...)): no try/catch, the first
\* write that throws ends the loop
RECURSIVE SimpleForEach(_, _, _)
SimpleForEach(pass, k, brk) ==
    IF k > Len(pass.clients) \/ pass.threw THEN pass
    ELSE LET client == pass.clients[k]
         IN  SimpleForEach(
                 IF client \in brk
                 THEN [pass EXCEPT !.tried = Append(@, client),
                                   !.failed = Append(@, client),
                                   !.threw = TRUE]
                 ELSE [pass EXCEPT !.tried = Append(@, client),
                                   !.written = Append(@, client)],
                 k + 1, brk)

\* app.use(express.json()): a request without a body passes; a body is
\* parsed in strict mode, which takes a JSON object and fails on the rest
ExpressJsonFails(body) == body # "" /\ JSONParse(body).kind # "object"

\* the bodies, queries and requests of SpecSimple
SimpleBodies == {"", BodySuccess, BodyMalformed}
SimpleQueries == {EmptyObject, FullQuery, [project |-> "Shop"]}
SimpleRequests ==
    [method : Methods, query : SimpleQueries, body : SimpleBodies]

\* the record of an /events request or close event of the relay, with the
\* array as it was before the step
SimpleEvent(kind, res) ==
    [kind |-> kind, status |-> 0, pass |-> NoPass, res |-> res,
     before |-> clients]

\* app.all('/notify') of simple-server.js, behind express.json(), with at
\* most `limit` requests handled in a run
SimpleNotify(req, limit) ==
    IF ExpressJsonFails(req.body)
    THEN /\ last' = Handled("simple-parse", req,
                            [status |-> 400, error |-> "Bad Request"], NoPass)
         /\ UNCHANGED <<clients, envSecret, recentNotifications, sseClients,
                        timers, conn, broken, inbox, now, published, subAt,
                        pings>>
    ELSE LET pass == SimpleForEach(StartPass(clients), 1, broken)
         IN  /\ Len(published) < limit
             /\ inbox' = Deliver(inbox, pass.written,
                                 SimpleMsg(req.query, Len(published) + 1))
             /\ last' = Handled("simple-notify", req,
                   IF pass.threw THEN ServerError
                   ELSE [status |-> 200, success |-> TRUE,
                         clients |-> Len(clients)],
                   pass)
             /\ published' = Append(published, SimplePayload(req.query))
             /\ UNCHANGED <<clients, envSecret, recentNotifications,
                            sseClients, timers, conn, broken, now, subAt,
                            pings>>

\* app.get('/events') of simple-server.js: writeHead, then clients.push(res)
SimpleEvents(limit) ==
    LET res == Cardinality({c \in Conns : conn[c] # "none"}) + 1
    IN  /\ res <= limit
        /\ clients' = Append(clients, res)
        /\ conn' = [conn EXCEPT ![res] = "open"]
        /\ last' = SimpleEvent("simple-events", res)
        /\ UNCHANGED <<envSecret, recentNotifications, sseClients, timers,
                       broken, inbox, now, published, subAt, pings>>

\* req.on('close') of simple-server.js
SimpleClose(res) ==
    /\ conn[res] = "open"
    /\ clients' = SelectSeq(clients, LAMBDA client : client # res)
    /\ conn' = [conn EXCEPT ![res] = "closed"]
    /\ last' = SimpleEvent("simple-close", res)
    /\ UNCHANGED <<envSecret, recentNotifications, sseClients, timers,
                   broken, inbox, now, published, subAt, pings>>

NextSimple ==
    \/ \E req \in SimpleRequests : SimpleNotify(req, MaxSimpleNotifs)
    \/ SimpleEvents(MaxConns)
    \/ \E res \in Conns : SimpleClose(res)
    \/ \E res \in Conns : Break(res)

SpecSimple == Init /\ [][NextSimple]_vars

---------------------------------------------------------------------------
(* Properties *)

Range(seq) == {seq[i] : i \in DOMAIN seq}
Count(seq, x) == Cardinality({i \in DOMAIN seq : seq[i] = x})

\* the step just taken was a /webhook or /notify request that was accepted
Accepted == last.kind \in {"webhook", "notify"} /\ last.status = 200

\* the positions of the notification messages in a connection's stream
Live(res) == {i \in DOMAIN inbox[res] : inbox[res][i].type = "notification"}

\* C1: a publish pass attempts exactly one write to each connection that was
\* registered when the pass began, whichever writes fail, and does not throw.
C1_PassWritesEachOnce ==
    last.kind \in {"webhook", "notify"} =>
        /\ ~last.pass.threw
        /\ \A c \in Conns : Count(last.pass.tried, c) = Count(last.pass.before, c)

\* C2: a subscriber that stays registered and whose own writes succeed has
\* received every notification published since it subscribed, each exactly once.
C2_SubscriberGetsAll ==
    \A c \in Conns :
        (conn[c] = "open" /\ c \notin broken /\ c \in Range(sseClients)) =>
            \A k \in (subAt[c] + 1)..Len(published) :
                Cardinality({i \in Live(c) : inbox[c][i].pub = k}) = 1

\* C3: when a write fails during a publish, the failed connection is removed
\* from the registry, the request is still answered 200 with its
\* acknowledgment, and the notification is at the head of the store.
C3_WriteFailureIsolated ==
    (last.kind \in {"webhook", "notify"} /\ last.pass.failed # << >>) =>
        /\ last.status = 200
        /\ last.response.success
        /\ \A c \in Range(last.pass.failed) : c \notin Range(sseClients)
        /\ recentNotifications # << >>
        /\ recentNotifications[1] = last.response.received
        /\ published[Len(published)] = last.response.received

C3_Witness ==
    /\ Accepted
    /\ last.pass.failed # << >>
    /\ last.pass.written # << >>

\* C4: the store holds at most StoreCap notifications, newest first, and they
\* are the most recently accepted ones (so an insertion at capacity evicts
\* exactly the oldest).
C4_StoreKeepsNewest ==
    /\ Len(recentNotifications) = Min(StoreCap, Len(published))
    /\ \A i \in 1..Len(recentNotifications) :
          recentNotifications[i] = published[Len(published) - i + 1]

C4_Witness ==
    /\ Len(published) > StoreCap
    /\ Accepted
    /\ recentNotifications[1] # recentNotifications[StoreCap]

\* the up to five notifications that were newest when `res` subscribed
HistoryAt(res) ==
    [i \in 1..Min(5, Min(StoreCap, subAt[res])) |-> published[subAt[res] - i + 1]]

\* C5: every subscriber's stream starts with a connected message,
\* then a history message with the min(5, store size) newest notifications
\* (an empty list for an empty store), and only then live notifications.
C5_HistoryAlwaysSent ==
    \A c \in Conns : conn[c] # "none" =>
        /\ Len(inbox[c]) >= 2
        /\ inbox[c][1].type = "connected"
        /\ inbox[c][2] = HistoryMsg(HistoryAt(c))
        /\ \A i \in Live(c) : i > 2 /\ inbox[c][i].pub > subAt[c]

\* what the handler does of C5: the stream starts with a connected message;
\* when the store was not empty a history message with the min(5, store
\* size) newest notifications, newest first, follows, and when it was empty
\* there is no history message; live notifications come only after these
\* and were all published later.
C5_HistoryWhenNonEmpty ==
    \A c \in Conns : conn[c] # "none" =>
        LET lead == IF subAt[c] > 0 THEN 2 ELSE 1
        IN  /\ Len(inbox[c]) >= lead
            /\ inbox[c][1].type = "connected"
            /\ subAt[c] > 0 => inbox[c][2] = HistoryMsg(HistoryAt(c))
            /\ \A i \in DOMAIN inbox[c] :
                  i > lead => inbox[c][i].type \notin {"connected", "history"}
            /\ \A i \in Live(c) : i > lead /\ inbox[c][i].pub > subAt[c]

\* C6: the live notifications of every subscriber are in the order in which
\* they were appended to the store, none twice.
C6_LiveInStoreOrder ==
    \A c \in Conns :
        /\ \A i \in Live(c) : inbox[c][i].notification = published[inbox[c][i].pub]
        /\ \A i, j \in Live(c) : i < j => inbox[c][i].pub < inbox[c][j].pub

C6_Witness ==
    \E c \in Conns : Cardinality(Live(c)) >= 2

\* C7: every active keep-alive timer belongs to a connection that is in the
\* registry.
C7_NoDanglingTimer ==
    timers \subseteq Range(sseClients)

\* the hex digest a request must carry: HMAC-SHA256 of its body under the
\* server's secret
ExpectedSignature(req) == generateSignature(WEBHOOK_SECRET, req.text)

LowerCase(s) == [i \in 1..Len(s) |->
                    IF HexVal(s[i]) >= 0 THEN HexDigits[HexVal(s[i]) + 1] ELSE s[i]]

\* the request carries a signature header that is not the digest: a wrong
\* digest of the right length, a value of another length, or a value that
\* is not hex
Mismatching(req) ==
    /\ Has(req, "signature")
    /\ LowerCase(req.signature) # ExpectedSignature(req)

\* the header is not well-formed hex of a digest: a character that is no hex
\* digit, an odd length, or characters after a valid digest
Malformed(req) ==
    /\ Has(req, "signature")
    /\ \/ \E i \in DOMAIN req.signature : HexVal(req.signature[i]) = -1
       \/ Len(req.signature) % 2 = 1
       \/ /\ Len(req.signature) > 2 * DigestBytes
          /\ SubSeq(req.signature, 1, 2 * DigestBytes) = ExpectedSignature(req)

\* C8: every POST /webhook with a signature header that does not match the
\* digest is answered 401, and the store, the registry and the subscribers'
\* streams are unchanged.
C8_MismatchAnswered401 ==
    [][(last'.kind = "webhook" /\ Mismatching(last'.req)) =>
           /\ last'.status = 401
           /\ UNCHANGED <<recentNotifications, sseClients, inbox>>]_vars

\* C9: a POST /webhook with a malformed signature header is never accepted:
\* its notification is neither stored nor broadcast.
C9_MalformedNeverAccepted ==
    [][(last'.kind = "webhook" /\ Malformed(last'.req)) =>
           /\ last'.status # 200
           /\ UNCHANGED <<recentNotifications, sseClients, inbox>>]_vars

\* the step stored the notification it acknowledges and wrote it to every
\* registered connection
StoredAndBroadcast ==
    /\ last'.status = 200
    /\ recentNotifications' # << >>
    /\ recentNotifications'[1] = last'.response.received
    /\ published' = Append(published, last'.response.received)
    /\ \A c \in Range(sseClients) :
          /\ Len(inbox'[c]) = Len(inbox[c]) + 1
          /\ inbox'[c][Len(inbox'[c])].type = "notification"
          /\ inbox'[c][Len(inbox'[c])].notification = last'.response.received

\* C10: for every secret and body, a POST /webhook signed with the hex HMAC
\* of its body is accepted (200, stored, broadcast), and one whose header
\* differs from that digest in one bit is rejected.
C10_SignedAlwaysAccepted ==
    [][(last'.kind = "webhook" /\ Has(last'.req, "signature")) =>
           /\ last'.req.signature = ExpectedSignature(last'.req) => StoredAndBroadcast
           /\ last'.req.signature \in FlippedSignatures(WEBHOOK_SECRET, last'.req.text) =>
                 /\ last'.status = 401
                 /\ UNCHANGED <<recentNotifications, sseClients, inbox>>]_vars

\* what the handler does of C10, for a body sent as application/json: a
\* request signed with the hex HMAC of its body is never answered 401, and
\* it is accepted (200, stored, broadcast) when its body is the JSON text of
\* an object; a header that differs from the digest in one bit is answered
\* 401 and changes nothing.
C10_SignedPassesVerification ==
    [][(last'.kind = "webhook" /\ Has(last'.req, "signature")
          /\ last'.req.contentType = "application/json") =>
           /\ last'.req.signature = ExpectedSignature(last'.req) =>
                 /\ last'.status # 401
                 /\ JSONParse(last'.req.text).kind = "object" => StoredAndBroadcast
           /\ last'.req.signature \in FlippedSignatures(WEBHOOK_SECRET, last'.req.text) =>
                 /\ last'.status = 401
                 /\ UNCHANGED <<recentNotifications, sseClients, inbox>>]_vars

\* C11: a POST /webhook without a signature header is not verified: whenever
\* its body is well-formed JSON it is accepted (200, stored, broadcast),
\* under the default secret and under a configured one.
C11_UnsignedAlwaysAccepted ==
    [][(last'.kind = "webhook" /\ ~Has(last'.req, "signature")
          /\ last'.req.contentType = "application/json"
          /\ JSONParse(last'.req.text).kind # "error") => StoredAndBroadcast]_vars

\* C12: when no secret is configured in the environment, a POST /webhook
\* with well-formed JSON is accepted whatever its signature header carries.
C12_NoSecretNoEnforcement ==
    [][(last'.kind = "webhook" /\ envSecret = ""
          /\ Has(last'.req, "signature")
          /\ last'.req.contentType = "application/json"
          /\ JSONParse(last'.req.text).kind = "object") => StoredAndBroadcast]_vars

\* C13: every POST /webhook is answered 200, 401 or 400; no request raises
\* an unhandled error.
C13_ThreeResponsesOnly ==
    last.kind = "webhook" => last.status \in {200, 401, 400}

\* the body of the request, sent as application/json, is no JSON text
Unparseable(req) ==
    /\ req.contentType = "application/json"
    /\ req.text = BodyMalformed

\* C14: every POST /webhook whose body cannot be parsed as JSON is
\* answered 400, and the store, the registry and the subscribers' streams
\* are unchanged.
C14_UnparseableAnswered400 ==
    [][(last'.kind = "webhook" /\ Unparseable(last'.req)) =>
           /\ last'.status = 400
           /\ UNCHANGED <<recentNotifications, sseClients, inbox>>]_vars

\* C14 as amended: a POST /webhook (sent as application/json) whose body
\* cannot be parsed as JSON leaves the store, the registry and the
\* subscribers' streams unchanged, whatever its signature header; and when
\* it carries no signature header, or the digest of its body, it is
\* answered 400 with an error body.
C14_VerifiedUnparseableAnswered400 ==
    [][(last'.kind = "webhook" /\ Unparseable(last'.req)) =>
           /\ UNCHANGED <<recentNotifications, sseClients, inbox, published>>
           /\ (Has(last'.req, "signature") =>
                  last'.req.signature = ExpectedSignature(last'.req)) =>
                 /\ last'.status = 400
                 /\ Has(last'.response, "error")]_vars

C14_Witness ==
    /\ last.kind = "webhook"
    /\ last.status = 400
    /\ Unparseable(last.req)
    /\ Has(last.req, "signature")
    /\ last.req.signature = ExpectedSignature(last.req)
    /\ sseClients # << >>

\* C15: the ids of the stored notifications are pairwise distinct and
\* strictly increasing in insertion order (the store is newest first, so a
\* notification's id is larger than that of every one behind it).
C15_IdsStrictlyIncreasing ==
    \A i, j \in DOMAIN recentNotifications :
        i < j => recentNotifications[i].id > recentNotifications[j].id

\* C16: the acknowledgment of every accepted /webhook and /notify request has
\* success and playSound true, `received` equal to the notification at the
\* head of the store, and `clientsNotified` equal to the number of
\* connections the notification was written to without failure.
C16_AcknowledgmentCounts ==
    Accepted =>
        /\ last.response.success = TRUE
        /\ last.response.playSound = TRUE
        /\ last.response.received = recentNotifications[1]
        /\ last.response.clientsNotified = Len(last.pass.written)

\* the step just taken removed connection last.res: its close event was
\* handled, or its keep-alive ping failed
Removal ==
    \/ last.kind = "close"
    \/ last.kind = "ping" /\ last.res \in broken

\* array.filter(c => c !== x)
Without(array, x) == SelectSeq(array, LAMBDA c : c # x)

\* C17: removing a connection is idempotent: a removal of a connection that
\* is already out of the registry leaves the registry as it was, and every
\* removal takes out the one connection only, the others staying in order.
C17_RemovalIdempotent ==
    Removal =>
        /\ last.res \notin Range(last.before) => sseClients = last.before
        /\ sseClients = Without(last.before, last.res)

\* a close event after a failed-write prune, with another connection registered
C17_Witness ==
    /\ last.kind = "close"
    /\ last.res \notin Range(last.before)
    /\ last.before # << >>

\* a failed ping after a failed-write prune, with another connection registered
C17_PingAfterPrune ==
    /\ last.kind = "ping"
    /\ last.res \in broken
    /\ last.res \notin Range(last.before)
    /\ last.before # << >>

\* C18: when a connection's close event is handled, in that step it leaves
\* the registry and its keep-alive timer is cancelled; and once closed it
\* stays out of both and nothing more is written to it.
C18_ClosedIsSilent ==
    [][\A c \in Conns :
          /\ conn'[c] = "closed" => c \notin Range(sseClients') /\ c \notin timers'
          /\ conn[c] = "closed" => inbox'[c] = inbox[c] /\ conn'[c] = "closed"]_vars

\* a notification is published and written to a registered connection after
\* another connection, which had received an earlier one, closed
C18_Witness ==
    /\ Accepted
    /\ last.pass.written # << >>
    /\ \E c \in Conns :
          /\ conn[c] = "closed"
          /\ Live(c) # {}
          /\ \A i \in Live(c) : inbox[c][i].pub < Len(published)

\* the number of pings written to a connection
PingCount(res) ==
    Cardinality({i \in DOMAIN inbox[res] : inbox[res][i].type = "ping"})

\* the step just taken was a timer tick of a registered connection
TickOfRegistered == last.kind = "ping" /\ last.res \in Range(last.before)

\* this step is a timer tick of connection c, which is registered
Ticks(c) == pings'[c] # pings[c] /\ c \in Range(sseClients)

\* a connection in the registry gets one more ping or leaves the registry,
\* for each of the MaxLivePings ticks its timer makes in a run
KeepsReceivingPings ==
    \A c \in Conns : \A n \in 0..(MaxLivePings - 1) :
        (c \in Range(sseClients) /\ PingCount(c) = n)
            ~> (PingCount(c) > n \/ c \notin Range(sseClients))

\* C19 as amended: every registered connection has an active keep-alive
\* timer; a tick of a registered connection writes a ping to it, whether or
\* not anything is published, unless the write fails, and then no ping is
\* written and the same tick removes the connection from the registry and
\* cancels its timer; and a connection that stays registered keeps
\* receiving pings.
C19_RegisteredIsPinged ==
    /\ [](Range(sseClients) \subseteq timers)
    /\ [][\A c \in Conns : Ticks(c) =>
             IF c \notin broken
             THEN /\ inbox' = [inbox EXCEPT ![c] = Append(@, PingMsg(now))]
                  /\ UNCHANGED <<sseClients, timers>>
             ELSE /\ inbox' = inbox
                  /\ sseClients' = Without(sseClients, c)
                  /\ timers' = timers \ {c}]_vars
    /\ KeepsReceivingPings

\* C19: every registered connection has an active keep-alive timer; every
\* tick of a registered connection writes a ping to it, whether or not
\* anything is published; and a connection that stays registered keeps
\* receiving pings.
C19_EveryTickWritesPing ==
    /\ [](Range(sseClients) \subseteq timers)
    /\ [][\A c \in Conns : Ticks(c) =>
             inbox' = [inbox EXCEPT ![c] = Append(@, PingMsg(now))]]_vars
    /\ KeepsReceivingPings

\* a registered connection receives its second ping when nothing was ever
\* published, after the failed ping of the other connection removed that one
C19_Witness ==
    /\ TickOfRegistered
    /\ last.res \notin broken
    /\ PingCount(last.res) = 2
    /\ published = << >>
    /\ \E c \in Conns :
          /\ c \in broken
          /\ pings[c] > 0
          /\ conn[c] = "open"
          /\ c \notin Range(sseClients)
          /\ c \notin timers

\* the parameter of the query just handled is absent or empty
Missing(field) == ~Has(last'.req, field) \/ last'.req[field] = ""

\* C20: the legacy /notify endpoint never fails validation: for every method
\* and every subset of the query parameters it answers 200, stores and
\* broadcasts a notification with isLegacy = true and no provider metadata,
\* with project "Manual Notification" and event "unknown" for the absent or
\* empty parameters.
C20_NotifyAlwaysAccepted ==
    [][last'.kind \in {"notify", "preflight"} =>
           /\ StoredAndBroadcast
           /\ last'.response.received.isLegacy = TRUE
           /\ ~Has(last'.response.received, "railwayData")
           /\ last'.response.received.project =
                 (IF Missing("project") THEN "Manual Notification"
                  ELSE last'.req.project)
           /\ last'.response.received.event =
                 (IF Missing("event") THEN "unknown" ELSE last'.req.event)]_vars

\* C20 for the requests that reach the handler (every method but OPTIONS)
C20_HandlerAlwaysAccepts ==
    [][last'.kind = "notify" =>
           /\ StoredAndBroadcast
           /\ last'.response.received.isLegacy = TRUE
           /\ ~Has(last'.response.received, "railwayData")
           /\ last'.response.received.project =
                 (IF Missing("project") THEN "Manual Notification"
                  ELSE last'.req.project)
           /\ last'.response.received.event =
                 (IF Missing("event") THEN "unknown" ELSE last'.req.event)]_vars

\* the step just taken accepted a POST /webhook with one of the payloads of
\* SpecFields
AcceptedPayload ==
    /\ last.kind = "webhook"
    /\ last.status = 200
    /\ last.req.text \in DOMAIN ParseTable

\* the payload that was sent
SentPayload == ParseTable[last.req.text]

\* C21: event normalization is the fixed ten-entry table, and for every
\* provider type string outside the table the stored event kind is the type
\* string unchanged.
C21_OutsideTablePassesThrough ==
    /\ Cardinality(DOMAIN RAILWAY_EVENT_MAP) = 10
    /\ RAILWAY_EVENT_MAP["deployment.success"] = "deployment_success"
    /\ RAILWAY_EVENT_MAP["deployment.crashed"] = "service_crash"
    /\ RAILWAY_EVENT_MAP["deployment.failed"] = "deployment_failure"
    /\ AcceptedPayload =>
          /\ recentNotifications[1] = last.response.received
          /\ recentNotifications[1].event =
                (IF SentPayload.type \in DOMAIN RAILWAY_EVENT_MAP
                 THEN RAILWAY_EVENT_MAP[SentPayload.type]
                 ELSE SentPayload.type)

\* the environment name a message must name for the payload sent
SentEnvironment ==
    IF Has(SentPayload, "environment") /\ Has(SentPayload.environment, "name")
         /\ SentPayload.environment.name # ""
    THEN SentPayload.environment.name ELSE "production"

\* the payload sent has a deployment with a URL
SentUrl ==
    /\ Has(SentPayload, "deployment")
    /\ Has(SentPayload.deployment, "url")
    /\ SentPayload.deployment.url # Null

\* C22: the message is selected by the original provider type; it names the
\* environment, or "production" when the environment or its name is absent;
\* it ends with the deployment URL only for deployment.success with a URL;
\* and for a type outside the table it is "{type} in {environment}".
C22_MessageByProviderType ==
    AcceptedPayload =>
        LET message == recentNotifications[1].message
            type == SentPayload.type
        IN  /\ type \notin TableTypes => message = <<type, " in ", SentEnvironment>>
            /\ type \in TableTypes =>
                  /\ message[2] = SentEnvironment
                  /\ Len(message) = (IF type = "deployment.success" /\ SentUrl
                                     THEN 4 ELSE 2)
                  /\ Len(message) = 4 =>
                        /\ message[3] = " at "
                        /\ message[4] = SentPayload.deployment.url
            /\ type = "deployment.crashed" => message[1] = "Service crashed in "
            /\ type = "deployment.success" => message[1] = "Successfully deployed to "
            /\ type = "deployment.failed" => message[1] = "Deployment failed for "

C22_Witness ==
    /\ AcceptedPayload
    /\ SentPayload.type = "deployment.success"
    /\ SentUrl
    /\ SentEnvironment = "staging"
    /\ Len(recentNotifications[1].message) = 4

\* C23: the connected message sent to a new subscriber carries the number of
\* connections in the registry at that moment, the new one included.
C23_ConnectedCountsRegistry ==
    [][\A c \in Conns : (conn[c] = "none" /\ conn'[c] = "open") =>
          /\ sseClients' = Append(sseClients, c)
          /\ inbox'[c][1].type = "connected"
          /\ inbox'[c][1].clientCount = Len(sseClients')
          /\ inbox'[c][1].clientCount = Len(sseClients) + 1]_vars

\* the second connection ever opened is told that it is the only one, the
\* first having left the registry
C23_Witness ==
    /\ conn[2] = "open"
    /\ inbox[2][1].type = "connected"
    /\ inbox[2][1].clientCount = 1
    /\ conn[1] # "none"

\* C24: GET /notifications returns the first min(10, store size) entries of
\* the store, newest first (an empty array for an empty store), and leaves
\* the store and the registry unchanged.
C24_NotificationsReadOnly ==
    [][last'.kind = "notifications" =>
          /\ last'.status = 200
          /\ Len(last'.response.body) = Min(10, Len(recentNotifications))
          /\ \A i \in DOMAIN last'.response.body :
                /\ last'.response.body[i] = recentNotifications[i]
                /\ last'.response.body[i] = published[Len(published) - i + 1]
          /\ UNCHANGED <<recentNotifications, sseClients, timers, inbox>>]_vars

C24_Witness ==
    /\ last.kind = "notifications"
    /\ Len(last.response.body) = 10
    /\ Len(recentNotifications) = StoreCap
    /\ Len(published) > StoreCap
    /\ sseClients # << >>

\* C25: every notification stored through /webhook carries the provider
\* metadata bag and has isLegacy = false.
C25_WebhookNotLegacy ==
    (last.kind = "webhook" /\ last.status = 200) =>
        /\ Has(recentNotifications[1], "railwayData")
        /\ Has(recentNotifications[1], "isLegacy")
        /\ recentNotifications[1].isLegacy = FALSE

\* the texts of the clock readings from t to u
Readings(t, u) == {toISOString(reading) : reading \in t..u}

\* the step just taken accepted a /notify request without a usable
\* timestamp parameter
DefaultedTimestamp ==
    /\ Accepted
    /\ last.kind = "notify"
    /\ ~(Has(last.req, "timestamp") /\ last.req.timestamp # "")

\* C26: every stored notification's receivedAt is the server's ingestion
\* time, a reading of the server clock taken while the request is handled,
\* never a value of the request; a /notify notification's timestamp is the
\* caller's timestamp parameter when one is supplied and the ingestion time,
\* again a reading of the clock taken while the request is handled,
\* otherwise.
C26_ReceivedAtIsServerTime ==
    [][Accepted' =>
          LET stored == recentNotifications'[1]
          IN  /\ stored.receivedAt = toISOString(now')
              /\ last'.kind = "notify" =>
                    IF Has(last'.req, "timestamp") /\ last'.req.timestamp # ""
                    THEN stored.timestamp = <<last'.req.timestamp>>
                    ELSE stored.timestamp \in Readings(now, now')]_vars

\* a /notify request that carries its own receivedAt and no timestamp,
\* handled while the clock advanced between the two readings
C26_Witness ==
    /\ DefaultedTimestamp
    /\ Has(last.req, "receivedAt")
    /\ recentNotifications[1].receivedAt # <<last.req.receivedAt>>
    /\ recentNotifications[1].timestamp # recentNotifications[1].receivedAt

\* C27: a stored notification is immutable: every step leaves the
\* notifications that stay in the store as they were (an insertion only
\* moves them one place back), and the copies in a subscriber's history
\* message and in a /notifications response equal the notification as it was
\* accepted and broadcast.
C27_StoredIsImmutable ==
    /\ [][LET inserted == Len(published') - Len(published)
          IN  \A i \in DOMAIN recentNotifications :
                 i + inserted <= Len(recentNotifications') =>
                     recentNotifications'[i + inserted] = recentNotifications[i]]_vars
    /\ [](\A c \in Conns : (conn[c] # "none" /\ subAt[c] > 0) =>
             \A i \in DOMAIN inbox[c][2].notifications :
                 inbox[c][2].notifications[i] = published[subAt[c] - i + 1])
    /\ [](last.kind = "notifications" =>
             \A i \in DOMAIN last.response.body :
                 last.response.body[i] = published[Len(published) - i + 1])

\* a /notifications response and a history message that hold notifications
\* which were stored before later ones were accepted
C27_Witness ==
    /\ last.kind = "notifications"
    /\ Len(last.response.body) >= 5
    /\ \E c \in Conns :
          /\ subAt[c] >= 5
          /\ Len(published) > subAt[c]
          /\ Len(inbox[c][2].notifications) = 5

\* C28: a publish pass removes from the registry only the connections whose
\* write failed during the pass: the others stay registered, in their
\* order, and the registry shrinks by the number of failed writes.
C28_PassRemovesOnlyFailed ==
    last.kind \in {"webhook", "notify"} =>
        /\ sseClients = SelectSeq(last.pass.before,
                                  LAMBDA c : c \notin Range(last.pass.failed))
        /\ Len(last.pass.before) - Len(sseClients) = Len(last.pass.failed)
        /\ \A c \in Range(last.pass.before) :
              (c \in Range(last.pass.written) \/ c \notin Range(last.pass.tried))
                  => c \in Range(sseClients)

\* a pass in which the first connection failed and the second, a dead one
\* too, was not attempted and stays registered
C28_Witness ==
    /\ Accepted
    /\ Len(last.pass.before) = 2
    /\ Len(last.pass.failed) = 1
    /\ last.pass.written = << >>
    /\ Len(sseClients) = 1
    /\ sseClients[1] \in broken

\* the notifications of the history message a connection was sent
HistoryOf(res) ==
    IF Len(inbox[res]) >= 2 /\ inbox[res][2].type = "history"
    THEN inbox[res][2].notifications ELSE << >>

\* the k-th accepted notification is in the history message of the connection
InHistory(res, k) ==
    \E i \in DOMAIN HistoryOf(res) :
        k = subAt[res] - i + 1 /\ HistoryOf(res)[i] = published[k]

\* the k-th accepted notification was written to the connection as a live
\* notification message
IsLive(res, k) == \E i \in Live(res) : inbox[res][i].pub = k

\* C29 as stated: no subscriber gets a notification both in its history and
\* live, and a notification is in a subscriber's history exactly when it was
\* stored before the subscriber registered.
C29_HistoryIffStoredBefore ==
    \A c \in Conns : conn[c] # "none" =>
        \A k \in 1..Len(published) :
            /\ ~(InHistory(c, k) /\ IsLive(c, k))
            /\ InHistory(c, k) <=> k <= subAt[c]

\* C29 amended: no subscriber gets a notification both in its history and
\* live: its history holds exactly the five newest (or all, when fewer) of
\* the notifications stored before it registered, and its live messages are
\* of notifications stored after it registered.
C29_HistoryOnlyStoredBefore ==
    \A c \in Conns : conn[c] # "none" =>
        /\ Len(HistoryOf(c)) = Min(5, subAt[c])
        /\ \A k \in 1..Len(published) :
              /\ ~(InHistory(c, k) /\ IsLive(c, k))
              /\ InHistory(c, k) <=> (k <= subAt[c] /\ k > subAt[c] - 5)
              /\ IsLive(c, k) => k > subAt[c]

C29_Witness ==
    \E c \in Conns :
        /\ subAt[c] > 5
        /\ Cardinality(Live(c)) >= 2
        /\ InHistory(c, subAt[c])
        /\ IsLive(c, subAt[c] + 1)

\* the connection is dead (its writes fail) and still in the registry
DeadRegistered(res) == res \in broken /\ res \in Range(sseClients)

\* C30: a dead connection that never emits a close event does not stay
\* registered: it has an active timer, its own next tick removes it if no
\* publish did before, and so, the timers ticking, it is eventually out of
\* the registry (or the MaxPings ticks of its timer in a run are used up).
C30_DeadEventuallyRemoved ==
    /\ [](\A c \in Conns : DeadRegistered(c) => c \in timers)
    /\ []((last.kind = "ping" /\ last.res \in broken) =>
             last.res \notin Range(sseClients))
    /\ \A c \in Conns :
          DeadRegistered(c) ~> (c \notin Range(sseClients) \/ pings[c] = MaxPings)

\* a dead connection that a publish passed over and that never closed is
\* removed by its own ping
C30_Witness ==
    /\ last.kind = "ping"
    /\ last.res \in broken
    /\ last.res \in Range(last.before)
    /\ last.res \notin Range(sseClients)
    /\ conn[last.res] = "open"
    /\ Len(published) > subAt[last.res]

\* C31: the signature check precedes JSON parsing: a POST /webhook with a
\* mismatching signature header and a malformed JSON body is answered with
\* the authentication failure (401), never with 400.
C31_SignatureCheckedFirst ==
    [][(last'.kind = "webhook" /\ Mismatching(last'.req) /\ Unparseable(last'.req)) =>
           /\ last'.status = 401
           /\ UNCHANGED <<recentNotifications, sseClients, inbox>>]_vars

\* the connection's ping failed at some time: it is dead and has neither a
\* timer nor a place in the registry
Retired(res) ==
    res \in broken /\ res \notin timers /\ res \notin Range(sseClients)

\* C32: a keep-alive ping whose write fails cancels that connection's timer
\* and removes the connection from the registry in the same step, other
\* connections and their timers staying as they were; afterwards no ping
\* and no publish writes to it.
C32_FailedPingRetires ==
    [][/\ (last'.kind = "ping" /\ pings' # pings /\ last'.res \in broken) =>
             /\ timers' = timers \ {last'.res}
             /\ sseClients' = Without(sseClients, last'.res)
             /\ inbox' = inbox
       /\ \A c \in Conns : Retired(c) => Retired(c)' /\ inbox'[c] = inbox[c]]_vars

\* after the failed ping of one connection, a notification is published to
\* the other, which is still registered with its timer
C32_Witness ==
    /\ Accepted
    /\ last.pass.written # << >>
    /\ \E c \in Conns :
          /\ Retired(c)
          /\ pings[c] > 0
          /\ conn[c] = "open"
          /\ c \notin Range(last.pass.tried)
    /\ Range(sseClients) \subseteq timers

\* C33: in every reachable state the registry holds each connection at most
\* once, and only connections opened through /events whose close event has
\* not been handled.
C33_RegistryOpenOnce ==
    /\ \A c \in Conns : Count(sseClients, c) <= 1
    /\ \A c \in Range(sseClients) : conn[c] = "open"

\* one connection has just been closed while the other is still registered
C33_Witness ==
    /\ last.kind = "close"
    /\ conn[last.res] = "closed"
    /\ last.res \in Range(last.before)
    /\ Len(last.before) = 2
    /\ Len(sseClients) = 1

\* the step just taken ran the relay's /notify handler
SimpleHandled == last.kind = "simple-notify"

\* the relay's list: exactly the connections opened and not yet closed,
\* each once
SimpleListExact ==
    /\ Range(clients) = {c \in Conns : conn[c] = "open"}
    /\ \A c \in Conns : Count(clients, c) <= 1

\* a close of the relay removes the closing connection and no other
SimpleCloseRemovesOne ==
    last'.kind = "simple-close" =>
        /\ last'.res \in Range(clients)
        /\ clients' = Without(clients, last'.res)

\* a /notify of the relay writes the payload once to every listed client
\* and reports the length of the list
SimpleNotifyWritesAll ==
    last'.kind = "simple-notify" =>
        /\ last'.status = 200
        /\ last'.response.clients = Len(clients)
        /\ clients' = clients
        /\ \A c \in Conns :
              inbox'[c] = inbox[c] \o
                 (IF c \in Range(clients)
                  THEN <<SimpleMsg(last'.req.query, Len(published) + 1)>>
                  ELSE << >>)

\* C34: in simple-server.js the `clients` list holds exactly the
\* connections opened and not yet closed, each once; a close removes only
\* the closing connection; and each /notify writes the payload once to
\* every listed client and reports `clients` equal to the list's length.
C34_SimpleListAndNotify ==
    /\ []SimpleListExact
    /\ [][SimpleCloseRemovesOne /\ SimpleNotifyWritesAll]_vars

\* C34 while every write succeeds: the list and the close as claimed, and
\* each /notify that finds no failing client writes to all and reports
\* the length
C34_HoldsWhileWritesSucceed ==
    /\ []SimpleListExact
    /\ [][/\ SimpleCloseRemovesOne
          /\ Range(clients) \cap broken = {} => SimpleNotifyWritesAll]_vars

\* a /notify of the relay with two clients listed, the first of which fails
C34_FirstWriteThrows ==
    /\ SimpleHandled
    /\ Len(last.pass.before) = 2
    /\ last.pass.threw
    /\ last.pass.written = << >>

====
